---- MODULE Spec2Model ----
(***************************************************************************)
(* Model of proxy/create_container_interceptor.go: the interceptor that    *)
(* rewrites a "create container" request (support volume, weavewait        *)
(* entrypoint, weaveDNS settings) before it is forwarded to the engine.    *)
(*                                                                         *)
(* Go strings that the code splits, trims or measures are sequences of     *)
(* one-character strings; strings the code only compares or copies (image  *)
(* names, addresses, entrypoint words) are TLA+ strings.  A Go pointer or  *)
(* slice whose nil-ness the code reads carries a flag (present, isNil).    *)
(***************************************************************************)
EXTENDS Integers, Sequences, FiniteSets, TLC

VARIABLES pc, r, container, proxy, world, calls, err, before, given, applied

vars == <<pc, r, container, proxy, world, calls, err, before, given, applied>>

----------------------------------------------------------------------------
(* Bounds of the model *)

\* longest binds list of a request
MaxBinds == 2
\* how many times an operation is applied to the same spec
MaxApply == 2

----------------------------------------------------------------------------
(* Strings *)

\* the text c repeated n times
Rep(c, n) == [i \in 1..n |-> c]

\* strings.Split(s, ":")
RECURSIVE Split(_)
Split(s) ==
    IF \E i \in 1..Len(s) : s[i] = ":"
    THEN LET i == CHOOSE k \in 1..Len(s) :
                      s[k] = ":" /\ \A j \in 1..(k - 1) : s[j] # ":"
         IN  <<SubSeq(s, 1, i - 1)>> \o Split(SubSeq(s, i + 1, Len(s)))
    ELSE <<s>>

\* strings.TrimSuffix(s, ".")
TrimSuffix(s) ==
    IF Len(s) > 0 /\ s[Len(s)] = "." THEN SubSeq(s, 1, Len(s) - 1) ELSE s

\* all sequences over S of length at most n
SeqsUpTo(S, n) == UNION {[1..k -> S] : k \in 0..n}

----------------------------------------------------------------------------
(* Constants of the program *)

MaxDockerHostname == 64

\* the reserved mount target "/w"
WaitTarget == <<"/", "w">>

\* the suffix ":/w:ro" of the support-volume bind
WaitBindSuffix == <<":">> \o WaitTarget \o <<":", "r", "o">>

\* the wrapper entrypoint
weaveWaitEntrypoint == <<"/w/w">>

\* nameserver.DefaultLocalDomain
DefaultLocalDomain ==
    <<"w", "e", "a", "v", "e", ".", "l", "o", "c", "a", "l", ".">>

NoError == [type |-> "nil", Name |-> ""]
ErrNoCommandSpecified == [type |-> "ErrNoCommandSpecified", Name |-> ""]
ErrNoSuchImage(name) == [type |-> "ErrNoSuchImage", Name |-> name]
\* the engine's own "no such image" error, which carries no name
DockerErrNoSuchImage == [type |-> "docker.ErrNoSuchImage", Name |-> ""]

----------------------------------------------------------------------------
(* The request body *)

NilSlice == [isNil |-> TRUE, elems |-> <<>>]
Slice(s) == [isNil |-> FALSE, elems |-> s]

\* a nil *docker.Config, a nil *docker.HostConfig
NilConfig ==
    [present |-> FALSE, Image |-> "", Hostname |-> <<>>, Domainname |-> <<>>,
     Entrypoint |-> NilSlice, Cmd |-> <<>>]
NilHostConfig ==
    [present |-> FALSE, Binds |-> <<>>, DNS |-> <<>>, DNSSearch |-> <<>>]

\* &docker.Config{}, &docker.HostConfig{}
EmptyConfig == [NilConfig EXCEPT !.present = TRUE]
EmptyHostConfig == [NilHostConfig EXCEPT !.present = TRUE]

\* createContainerRequestBody{}
EmptyBody ==
    [Config |-> NilConfig, HostConfig |-> NilHostConfig, MacAddress |-> ""]

----------------------------------------------------------------------------
(* addWeaveWaitVolume *)

\* a bind is dropped when its second ":"-separated field is "/w"
dropBindNoFilter(bind) == FALSE
dropBindThirdField(bind) ==
    LET s == Split(bind) IN Len(s) >= 3 /\ s[3] = WaitTarget
dropBind(bind) ==
    LET s == Split(bind) IN Len(s) >= 2 /\ s[2] = WaitTarget

RECURSIVE keptBinds(_)
keptBinds(binds) ==
    IF binds = <<>> THEN <<>>
    ELSE (IF dropBind(Head(binds)) THEN <<>> ELSE <<Head(binds)>>)
         \o keptBinds(Tail(binds))

addWeaveWaitVolume(hostConfig, weaveWaitVolume) ==
    [hostConfig EXCEPT
        !.Binds = Append(keptBinds(hostConfig.Binds),
                         weaveWaitVolume \o WaitBindSuffix)]

----------------------------------------------------------------------------
(* setWeaveWaitEntrypoint *)

\* proxy.client.InspectImage(ref): the engine's answer for this request
InspectImage(ref) == world.image

\* the image is inspected when the entrypoint has no elements (nil or empty)
needsInspect(config) == Len(config.Entrypoint.elems) = 0

defaultCmd(cmd, image) == IF Len(cmd) = 0 THEN image.Cmd ELSE cmd

\* only a nil entrypoint takes the image's default
defaultEntrypointWhenEmpty(entrypoint, image) ==
    IF Len(entrypoint.elems) = 0 THEN image.Entrypoint ELSE entrypoint
defaultEntrypoint(entrypoint, image) ==
    IF entrypoint.isNil THEN image.Entrypoint ELSE entrypoint

noCommandEntrypointOnly(entrypoint, cmd) == Len(entrypoint.elems) = 0
noCommand(entrypoint, cmd) == Len(entrypoint.elems) = 0 /\ Len(cmd) = 0

\* prefix the wrapper unless the first element already is the wrapper's first
wrapEntrypointWholePrefix(entrypoint) ==
    IF entrypoint.elems = weaveWaitEntrypoint
    THEN entrypoint
    ELSE Slice(weaveWaitEntrypoint \o entrypoint.elems)
wrapEntrypoint(entrypoint) ==
    IF Len(entrypoint.elems) = 0 \/ entrypoint.elems[1] # weaveWaitEntrypoint[1]
    THEN Slice(weaveWaitEntrypoint \o entrypoint.elems)
    ELSE entrypoint

\* returns the config as the call leaves it, the error and the engine calls
setWeaveWaitEntrypoint(config) ==
    LET image == InspectImage(config.Image)
        inspected == needsInspect(config)
        defaulted ==
            IF inspected
            THEN [config EXCEPT
                    !.Cmd = defaultCmd(config.Cmd, image),
                    !.Entrypoint = defaultEntrypoint(config.Entrypoint, image)]
            ELSE config
        made == IF inspected THEN <<"InspectImage">> ELSE <<>>
    IN  IF inspected /\ image.err = DockerErrNoSuchImage
        THEN [Config |-> config, err |-> ErrNoSuchImage(config.Image),
              calls |-> made]
        ELSE IF inspected /\ image.err # NoError
        THEN [Config |-> config, err |-> image.err, calls |-> made]
        ELSE IF noCommand(defaulted.Entrypoint, defaulted.Cmd)
        THEN [Config |-> defaulted, err |-> ErrNoCommandSpecified,
              calls |-> made]
        ELSE [Config |-> [defaulted EXCEPT
                            !.Entrypoint = wrapEntrypoint(defaulted.Entrypoint)],
              err |-> NoError, calls |-> made]

----------------------------------------------------------------------------
(* getDNSDomain, setWeaveDNS *)

\* the ways the lookup of the name service's domain ends
DNSOutcomes ==
    {"InspectContainerError", "NoNetworkSettings", "NoIPAddress",
     "GetError", "StatusNotOK", "ReadError", "OK"}

getDNSDomain(weavedns) ==
    IF weavedns.outcome \in
           {"InspectContainerError", "NoNetworkSettings", "NoIPAddress"}
    THEN [domain |-> DefaultLocalDomain, running |-> FALSE,
          calls |-> <<"InspectContainer">>]
    ELSE IF weavedns.outcome \in {"GetError", "StatusNotOK", "ReadError"}
    THEN [domain |-> DefaultLocalDomain, running |-> FALSE,
          calls |-> <<"InspectContainer", "http.Get">>]
    ELSE [domain |-> weavedns.domain, running |-> TRUE,
          calls |-> <<"InspectContainer", "http.Get">>]

dnsActiveAlways(dnsRunning, withDNS) == TRUE
dnsActive(dnsRunning, withDNS) == dnsRunning \/ withDNS

hostnameTooLongAtLimit(name, trimmedDNSDomain) ==
    Len(name) + 1 + Len(trimmedDNSDomain) >= MaxDockerHostname
hostnameTooLong(name, trimmedDNSDomain) ==
    Len(name) + 1 + Len(trimmedDNSDomain) > MaxDockerHostname

defaultDNSSearchSwapped(hostname, dnsDomain) ==
    IF hostname = <<>> THEN <<<<".">>>> ELSE <<dnsDomain>>
defaultDNSSearch(hostname, dnsDomain) ==
    IF hostname = <<>> THEN <<dnsDomain>> ELSE <<<<".">>>>

\* name is r.URL.Query().Get("name")
setWeaveDNS(c, name) ==
    LET looked == getDNSDomain(world.weavedns)
        dnsDomain == looked.domain
        trimmedDNSDomain == TrimSuffix(dnsDomain)
        withDNSAddr ==
            [c EXCEPT !.HostConfig.DNS = Append(@, proxy.dockerBridgeIP)]
        named ==
            IF c.Config.Hostname = <<>> /\ name # <<>>
               /\ ~hostnameTooLong(name, trimmedDNSDomain)
            THEN [withDNSAddr EXCEPT !.Config.Hostname = name,
                                     !.Config.Domainname = trimmedDNSDomain]
            ELSE withDNSAddr
        searched ==
            IF Len(named.HostConfig.DNSSearch) = 0
            THEN [named EXCEPT !.HostConfig.DNSSearch =
                      defaultDNSSearch(named.Config.Hostname, dnsDomain)]
            ELSE named
    IN  IF proxy.WithoutDNS
        THEN [container |-> c, err |-> NoError, calls |-> <<>>]
        ELSE IF ~dnsActive(looked.running, proxy.WithDNS)
        THEN [container |-> c, err |-> NoError, calls |-> looked.calls]
        ELSE [container |-> searched, err |-> NoError, calls |-> looked.calls]

----------------------------------------------------------------------------
(* Decoding and encoding of the body *)

\* The wire form is the sequence of the top-level members that are present.
\* A nil Config contributes no member, HostConfig and MacAddress are omitted
\* when empty (omitempty).
Marshal(c) ==
    (IF c.Config.present THEN <<<<"Config", c.Config>>>> ELSE <<>>)
    \o (IF c.HostConfig.present THEN <<<<"HostConfig", c.HostConfig>>>> ELSE <<>>)
    \o (IF c.MacAddress # "" THEN <<<<"MacAddress", c.MacAddress>>>> ELSE <<>>)

\* a body that is no JSON document
Malformed == <<<<"syntax error", "">>>>

Member(bytes, key, zero) ==
    IF \E i \in 1..Len(bytes) : bytes[i][1] = key
    THEN bytes[CHOOSE i \in 1..Len(bytes) : bytes[i][1] = key][2]
    ELSE zero

Unmarshal(bytes) ==
    IF \E i \in 1..Len(bytes) : bytes[i][1] = "syntax error"
    THEN [err |-> [type |-> "SyntaxError", Name |-> ""], container |-> EmptyBody]
    ELSE [err |-> NoError,
          container |->
              [Config |-> Member(bytes, "Config", NilConfig),
               HostConfig |-> Member(bytes, "HostConfig", NilHostConfig),
               MacAddress |-> Member(bytes, "MacAddress", "")]]

ClientBody(bytes) == [origin |-> "client", bytes |-> bytes, closed |-> FALSE]

----------------------------------------------------------------------------
(* InterceptRequest, one action per statement that calls out *)

\* body, err := ioutil.ReadAll(r.Body); r.Body.Close()
ReadAll ==
    /\ pc = "ReadAll"
    /\ calls' = Append(calls, "ReadAll")
    /\ IF world.readErr # NoError
       THEN /\ err' = world.readErr
            /\ pc' = "return"
            /\ r' = r
       ELSE /\ err' = err
            /\ pc' = "Unmarshal"
            /\ r' = [r EXCEPT !.Body.closed = TRUE]
    /\ UNCHANGED <<container, proxy, world, before, given, applied>>

\* json.Unmarshal(body, &container)
UnmarshalBody ==
    /\ pc = "Unmarshal"
    /\ LET res == Unmarshal(r.Body.bytes)
       IN  /\ err' = res.err
           /\ container' = res.container
           /\ given' = res.container
           /\ before' = res.container
           /\ pc' = IF res.err # NoError THEN "return" ELSE "weaveCIDRsFromConfig"
    /\ UNCHANGED <<r, proxy, world, calls, applied>>

\* the mutation stages run when the resolver returned no error
networkWantedAlways(resolved) == TRUE
networkWanted(resolved) == resolved.err = NoError

\* i.proxy.weaveCIDRsFromConfig(container.Config, container.HostConfig) and
\* the allocation of the missing parts
Resolve ==
    /\ pc = "weaveCIDRsFromConfig"
    /\ calls' = Append(calls, "weaveCIDRsFromConfig")
    /\ before' = container
    /\ IF networkWanted(world.resolved)
       THEN /\ container' =
                  [container EXCEPT
                     !.HostConfig = IF @.present THEN @ ELSE EmptyHostConfig,
                     !.Config = IF @.present THEN @ ELSE EmptyConfig]
            /\ pc' = "addWeaveWaitVolume"
       ELSE /\ container' = container
            /\ pc' = "Marshal"
    /\ UNCHANGED <<r, proxy, world, err, given, applied>>

\* i.addWeaveWaitVolume(container.HostConfig)
CallAddWeaveWaitVolume ==
    /\ before' = container
    /\ container' =
           [container EXCEPT
              !.HostConfig = addWeaveWaitVolume(@, proxy.weaveWaitVolume)]
    /\ calls' = Append(calls, "addWeaveWaitVolume")
    /\ UNCHANGED <<r, proxy, world, err, given>>

\* i.setWeaveWaitEntrypoint(container.Config)
CallSetWeaveWaitEntrypoint ==
    /\ before' = container
    /\ LET res == setWeaveWaitEntrypoint(container.Config)
       IN  /\ container' = [container EXCEPT !.Config = res.Config]
           /\ err' = res.err
           /\ calls' = Append(calls, "setWeaveWaitEntrypoint") \o res.calls
    /\ UNCHANGED <<r, proxy, world, given>>

\* i.setWeaveDNS(&container, r)
CallSetWeaveDNS ==
    /\ before' = container
    /\ LET res == setWeaveDNS(container, r.name)
       IN  /\ container' = res.container
           /\ err' = res.err
           /\ calls' = Append(calls, "setWeaveDNS") \o res.calls
    /\ UNCHANGED <<r, proxy, world, given>>

AddVolume ==
    /\ pc = "addWeaveWaitVolume"
    /\ CallAddWeaveWaitVolume
    /\ pc' = "setWeaveWaitEntrypoint"
    /\ UNCHANGED applied

\* an error of the entrypoint step is returned at once
afterEntrypointIgnoringError(e) == "setWeaveDNS"
afterEntrypoint(e) == IF e # NoError THEN "return" ELSE "setWeaveDNS"

SetEntrypoint ==
    /\ pc = "setWeaveWaitEntrypoint"
    /\ CallSetWeaveWaitEntrypoint
    /\ pc' = afterEntrypoint(err')
    /\ UNCHANGED applied

SetDNS ==
    /\ pc = "setWeaveDNS"
    /\ CallSetWeaveDNS
    /\ pc' = IF err' # NoError THEN "return" ELSE "Marshal"
    /\ UNCHANGED applied

\* newBody, err := json.Marshal(container); r.Body, r.ContentLength replaced
MarshalBody ==
    /\ pc = "Marshal"
    /\ LET newBody == Marshal(container)
       IN  r' = [r EXCEPT
                   !.Body = [origin |-> "interceptor", bytes |-> newBody,
                             closed |-> FALSE],
                   !.ContentLength = Len(newBody)]
    /\ calls' = Append(calls, "Marshal")
    /\ pc' = "return"
    /\ UNCHANGED <<container, proxy, world, err, before, given, applied>>

----------------------------------------------------------------------------
(* Inputs *)

\* longest entrypoint of a request or an image
MaxWords == 2

Image == [err |-> NoError, Entrypoint |-> NilSlice, Cmd |-> <<>>]
EngineError == [type |-> "EngineError", Name |-> "cannot connect"]
NotApplicable == [type |-> "NotApplicable", Name |-> ""]

BindSources == {<<"/", "a">>, WaitTarget}
BindTargets == {WaitTarget, <<"/", "b">>, <<"/", "w", "w">>}
BindModes == {<<"r", "o">>, WaitTarget}

\* source:target, source:target:mode, and a bare path without any ":"
BindStrings ==
    {s \o <<":">> \o t : s \in BindSources, t \in BindTargets}
    \cup {s \o <<":">> \o t \o <<":">> \o m :
              s \in BindSources, t \in BindTargets, m \in BindModes}
    \cup {WaitTarget}

BindLists == SeqsUpTo(BindStrings, MaxBinds)

WaitVolumes == {<<"/", "v">>, WaitTarget}

EntrypointWords == {"/w/w", "/bin/sh", "-c"}
Entrypoints ==
    {NilSlice} \cup {Slice(s) : s \in SeqsUpTo(EntrypointWords, MaxWords)}
Cmds == {<<>>, <<"c">>}

Images ==
    {[Image EXCEPT !.err = e] : e \in {DockerErrNoSuchImage, EngineError}}
    \cup {[Image EXCEPT !.Entrypoint = e, !.Cmd = c] :
              e \in Entrypoints, c \in Cmds}

\* the domains the name service answers with
ServedDomains == {<<>>, <<"d", ".">>, <<"d", ".", ".">>}

WeaveDNSs ==
    {[outcome |-> o, domain |-> <<>>] : o \in DNSOutcomes \ {"OK"}}
    \cup {[outcome |-> "OK", domain |-> d] : d \in ServedDomains}

\* name lengths on both sides of the limit for every domain, and short names
NameLengths ==
    {0, 1}
    \cup {MaxDockerHostname - 1 - Len(TrimSuffix(d)) + j :
              d \in ServedDomains \cup {DefaultLocalDomain}, j \in {0, 1}}
Names == {Rep("a", n) : n \in NameLengths}

Proxies(volumes) ==
    [WithDNS : BOOLEAN, WithoutDNS : BOOLEAN, weaveWaitVolume : volumes,
     dockerBridgeIP : {"172.17.42.1"}]

QuietWorld ==
    [readErr |-> NoError, resolved |-> [err |-> NoError, cidrs |-> <<>>],
     image |-> Image, weavedns |-> [outcome |-> "OK", domain |-> <<"d", ".">>]]

Request(bytes, name) ==
    [Body |-> ClientBody(bytes), ContentLength |-> Len(bytes), name |-> name]

\* the specs sent through the whole of InterceptRequest
RequestConfigs ==
    {NilConfig,
     [EmptyConfig EXCEPT !.Image = "busybox"],
     [EmptyConfig EXCEPT !.Image = "busybox", !.Hostname = <<"h">>,
                         !.Entrypoint = Slice(<<"/bin/sh">>), !.Cmd = <<"c">>],
     [EmptyConfig EXCEPT !.Image = "busybox", !.Entrypoint = Slice(<<>>),
                         !.Cmd = <<"c">>]}
RequestHostConfigs ==
    {NilHostConfig,
     [EmptyHostConfig EXCEPT
         !.Binds = <<<<"/", "a", ":", "/", "w">>>>, !.DNS = <<"8.8.8.8">>],
     [EmptyHostConfig EXCEPT !.DNSSearch = <<<<"s">>>>]}
RequestBodies ==
    {Marshal([Config |-> c, HostConfig |-> h, MacAddress |-> m]) :
         c \in RequestConfigs, h \in RequestHostConfigs,
         m \in {"", "02:42:ac:11:00:02"}}
    \cup {Malformed}

RequestWorlds ==
    [readErr : {NoError, [type |-> "ReadError", Name |-> ""]},
     resolved : {[err |-> NotApplicable, cidrs |-> <<>>],
                 [err |-> NoError, cidrs |-> <<>>],
                 [err |-> NoError, cidrs |-> <<"10.2.1.1/24">>]},
     image : {[Image EXCEPT !.err = DockerErrNoSuchImage],
              [Image EXCEPT !.err = EngineError],
              Image,
              [Image EXCEPT !.Entrypoint = Slice(<<"/bin/sh", "-c">>),
                            !.Cmd = <<"c">>]},
     weavedns : {[outcome |-> "InspectContainerError", domain |-> <<>>],
                 [outcome |-> "StatusNotOK", domain |-> <<>>],
                 [outcome |-> "OK", domain |-> <<"d", ".">>]}]

----------------------------------------------------------------------------
(* Specifications *)

\* one request through InterceptRequest
Init ==
    /\ pc = "ReadAll"
    /\ r \in {Request(b, n) : b \in RequestBodies, n \in {<<>>, <<"a">>}}
    /\ container = EmptyBody
    /\ proxy \in Proxies({<<"/", "v">>})
    /\ world \in RequestWorlds
    /\ calls = <<>>
    /\ err = NoError
    /\ before = EmptyBody
    /\ given = EmptyBody
    /\ applied = 0

Next ==
    \/ ReadAll
    \/ UnmarshalBody
    \/ Resolve
    \/ AddVolume
    \/ SetEntrypoint
    \/ SetDNS
    \/ MarshalBody

Spec == Init /\ [][Next]_vars

\* a state in which one operation is called on a decoded spec
InitCall(containers, proxies, worlds, names) ==
    /\ pc = "call"
    /\ r \in {Request(<<>>, n) : n \in names}
    /\ container \in containers
    /\ proxy \in proxies
    /\ world \in worlds
    /\ calls = <<>>
    /\ err = NoError
    /\ before = container
    /\ given = container
    /\ applied = 0

\* addWeaveWaitVolume applied to any binds list, and again to its result
InitVolume ==
    InitCall({[EmptyBody EXCEPT !.Config = EmptyConfig,
                                !.HostConfig = [EmptyHostConfig EXCEPT !.Binds = b]] :
                  b \in BindLists},
             {p \in Proxies(WaitVolumes) : ~p.WithDNS /\ ~p.WithoutDNS},
             {QuietWorld}, {<<>>})

ApplyVolume ==
    /\ applied < MaxApply
    /\ CallAddWeaveWaitVolume
    /\ applied' = applied + 1
    /\ UNCHANGED pc

NextVolume == ApplyVolume

SpecVolume == InitVolume /\ [][NextVolume]_vars

\* setWeaveWaitEntrypoint applied to any config, and again after a success
InitEntrypoint ==
    InitCall({[EmptyBody EXCEPT
                  !.Config = [EmptyConfig EXCEPT !.Image = i, !.Entrypoint = e,
                                                 !.Cmd = c],
                  !.HostConfig = EmptyHostConfig] :
                  i \in {"", "busybox"}, e \in Entrypoints, c \in Cmds},
             {p \in Proxies({<<"/", "v">>}) : ~p.WithDNS /\ ~p.WithoutDNS},
             {[QuietWorld EXCEPT !.image = i] : i \in Images}, {<<>>})

ApplyEntrypoint ==
    /\ applied < MaxApply
    /\ err = NoError
    /\ CallSetWeaveWaitEntrypoint
    /\ applied' = applied + 1
    /\ UNCHANGED pc

NextEntrypoint == ApplyEntrypoint

SpecEntrypoint == InitEntrypoint /\ [][NextEntrypoint]_vars

\* setWeaveDNS applied once to any spec, request name and state of the service
InitDNS ==
    InitCall({[EmptyBody EXCEPT
                  !.Config = [EmptyConfig EXCEPT !.Hostname = h, !.Domainname = d],
                  !.HostConfig = [EmptyHostConfig EXCEPT !.DNS = a, !.DNSSearch = s]] :
                  h \in {<<>>, <<"h">>}, d \in {<<>>, <<"x">>},
                  a \in {<<>>, <<"8.8.8.8">>}, s \in {<<>>, <<<<"s">>>>}},
             Proxies({<<"/", "v">>}),
             {[QuietWorld EXCEPT !.weavedns = w] : w \in WeaveDNSs}, Names)

ApplyDNS ==
    /\ applied = 0
    /\ CallSetWeaveDNS
    /\ applied' = applied + 1
    /\ UNCHANGED pc

NextDNS == ApplyDNS

SpecDNS == InitDNS /\ [][NextDNS]_vars

----------------------------------------------------------------------------
(* Vocabulary of the properties *)

Range(s) == {s[i] : i \in 1..Len(s)}
Count(s, x) == Cardinality({i \in 1..Len(s) : s[i] = x})

\* the calls logged since the latest call of op
SinceLast(op) ==
    LET at == {i \in 1..Len(calls) : calls[i] = op}
        last == CHOOSE i \in at : \A j \in at : j <= i
    IN  IF at = {} THEN <<>> ELSE SubSeq(calls, last + 1, Len(calls))

\* the mount target of a bind: the text between its first ":" and the next
\* ":" (or the end); a bind without ":" has none
Colons(b) == {i \in 1..Len(b) : b[i] = ":"}
MountTarget(b) ==
    LET first == CHOOSE i \in Colons(b) : \A j \in Colons(b) : i <= j
        later == {i \in Colons(b) : i > first}
        stop == IF later = {} THEN Len(b) + 1
                ELSE CHOOSE i \in later : \A j \in later : i <= j
    IN  SubSeq(b, first + 1, stop - 1)
TargetsWait(b) == Colons(b) # {} /\ MountTarget(b) = WaitTarget
NotTargetsWait(b) == ~TargetsWait(b)

WaitBind == proxy.weaveWaitVolume \o <<":", "/", "w", ":", "r", "o">>

\* the name service as the request finds it
Running == world.weavedns.outcome = "OK"
Domain == IF Running THEN world.weavedns.domain ELSE DefaultLocalDomain
Trimmed ==
    IF Domain # <<>> /\ Domain[Len(Domain)] = "."
    THEN SubSeq(Domain, 1, Len(Domain) - 1) ELSE Domain
DNSActive == ~proxy.WithoutDNS /\ (Running \/ proxy.WithDNS)

----------------------------------------------------------------------------
(* C2, C3: addWeaveWaitVolume *)

\* C2: after addWeaveWaitVolume the binds are the input binds whose mount
\* target is not /w, in their order, followed by <volume>:/w:ro; so exactly
\* one bind of the result has mount target /w, and it is the last one.
C2_VolumeResult ==
    applied >= 1 =>
        LET in == before.HostConfig.Binds
            out == container.HostConfig.Binds
        IN  /\ out = SelectSeq(in, NotTargetsWait) \o <<WaitBind>>
            /\ {i \in 1..Len(out) : TargetsWait(out[i])} = {Len(out)}

C2_Witness ==
    /\ applied = 1
    /\ Len(given.HostConfig.Binds) = 2
    /\ TargetsWait(given.HostConfig.Binds[1])
    /\ Len(Split(given.HostConfig.Binds[1])) = 3
    /\ ~TargetsWait(given.HostConfig.Binds[2])
    /\ Len(container.HostConfig.Binds) = 2

\* C3: a second addWeaveWaitVolume returns the binds of the first, which
\* hold <volume>:/w:ro once.
C3_VolumeIdempotent ==
    applied >= 2 =>
        /\ container.HostConfig.Binds = before.HostConfig.Binds
        /\ Count(container.HostConfig.Binds, WaitBind) = 1

C3_Witness ==
    /\ applied = 2
    /\ \E i \in 1..Len(given.HostConfig.Binds) :
           TargetsWait(given.HostConfig.Binds[i])
    /\ \E i \in 1..Len(given.HostConfig.Binds) :
           ~TargetsWait(given.HostConfig.Binds[i])

----------------------------------------------------------------------------
(* C4, C5, C6: setWeaveWaitEntrypoint *)

Wrapped(entrypoint) ==
    entrypoint.elems # <<>> /\ Head(entrypoint.elems) = Head(weaveWaitEntrypoint)

InspectedOK == world.image.err = NoError

\* C4: called on an entrypoint whose first element is the wrapper's first,
\* setWeaveWaitEntrypoint succeeds, changes neither entrypoint nor cmd and
\* does not inspect the image; a call after a successful call returns the
\* entrypoint and cmd of the first.
C4_EntrypointIdempotent ==
    /\ (applied >= 1 /\ Wrapped(before.Config.Entrypoint)) =>
           /\ err = NoError
           /\ container.Config.Entrypoint = before.Config.Entrypoint
           /\ container.Config.Cmd = before.Config.Cmd
           /\ "InspectImage" \notin Range(SinceLast("setWeaveWaitEntrypoint"))
    /\ applied >= 2 =>
           /\ err = NoError
           /\ container.Config.Entrypoint = before.Config.Entrypoint
           /\ container.Config.Cmd = before.Config.Cmd

C4_Witness ==
    /\ applied = 2
    /\ given.Config.Entrypoint.isNil
    /\ given.Config.Cmd = <<>>
    /\ before.Config.Entrypoint.elems = <<"/w/w", "/bin/sh", "-c">>
    /\ container.Config.Entrypoint = before.Config.Entrypoint

\* the case of C5: the image has a default entrypoint and no default
\* command, the spec has no command
C5_Case ==
    /\ applied = 1
    /\ InspectedOK
    /\ world.image.Entrypoint.elems # <<>>
    /\ world.image.Cmd = <<>>
    /\ before.Config.Cmd = <<>>

\* C5 as stated: with an entrypoint that is unset or an empty sequence the
\* call succeeds with entrypoint = wrapper followed by the image's
\* entrypoint, and an empty command.
C5_AsStated ==
    (C5_Case /\ before.Config.Entrypoint.elems = <<>>) =>
        /\ err = NoError
        /\ container.Config.Entrypoint.elems =
               weaveWaitEntrypoint \o world.image.Entrypoint.elems
        /\ container.Config.Cmd = <<>>

\* C5 amended: with an unset entrypoint the call succeeds with an empty
\* command and entrypoint = wrapper followed by the image's entrypoint, or
\* the image's entrypoint itself when that already starts with the wrapper's
\* first element; with an entrypoint set to the empty sequence the image is
\* inspected, the entrypoint stays empty and the call fails with
\* ErrNoCommandSpecified.
C5_UnsetEntrypointTakesImageDefault ==
    /\ (C5_Case /\ before.Config.Entrypoint.isNil) =>
           /\ err = NoError
           /\ container.Config.Cmd = <<>>
           /\ container.Config.Entrypoint.elems =
                  IF Wrapped(world.image.Entrypoint)
                  THEN world.image.Entrypoint.elems
                  ELSE weaveWaitEntrypoint \o world.image.Entrypoint.elems
    /\ (C5_Case /\ before.Config.Entrypoint = Slice(<<>>)) =>
           /\ err = ErrNoCommandSpecified
           /\ container.Config.Entrypoint = Slice(<<>>)
           /\ "InspectImage" \in Range(calls)

C5_Witness ==
    /\ C5_Case
    /\ before.Config.Entrypoint.isNil
    /\ world.image.Entrypoint.elems = <<"/bin/sh", "-c">>
    /\ container.Config.Entrypoint.elems = <<"/w/w", "/bin/sh", "-c">>

\* C6: when the image need not be inspected or is inspected successfully,
\* setWeaveWaitEntrypoint fails with ErrNoCommandSpecified exactly when the
\* entrypoint (the image's if unset) and the cmd (the image's if empty) are
\* both empty, and then the entrypoint is left without the wrapper; a failed
\* inspection never yields ErrNoCommandSpecified.
C6_NoCommandSpecified ==
    applied >= 1 =>
        LET ep == IF before.Config.Entrypoint.isNil
                  THEN world.image.Entrypoint.elems
                  ELSE before.Config.Entrypoint.elems
            cmd == IF before.Config.Cmd = <<>>
                   THEN world.image.Cmd ELSE before.Config.Cmd
            settled == InspectedOK \/ before.Config.Entrypoint.elems # <<>>
        IN  /\ settled =>
                ((err = ErrNoCommandSpecified) <=> (ep = <<>> /\ cmd = <<>>))
            /\ ~settled => err # ErrNoCommandSpecified
            /\ err = ErrNoCommandSpecified =>
                   container.Config.Entrypoint.elems = <<>>

C6_Witness ==
    /\ applied = 1
    /\ err = ErrNoCommandSpecified
    /\ before.Config.Entrypoint.isNil
    /\ before.Config.Cmd = <<>>
    /\ InspectedOK
    /\ world.image.Entrypoint.isNil
    /\ world.image.Cmd = <<>>

----------------------------------------------------------------------------
(* C7, C8, C9: setWeaveDNS *)

\* the hostname step applies: DNS is active, the spec has no hostname and
\* the request carries a name
C7_Case ==
    /\ applied = 1
    /\ DNSActive
    /\ before.Config.Hostname = <<>>
    /\ r.name # <<>>

\* C7: in that case hostname and domain become the name and the trimmed
\* domain exactly when len(name) + 1 + len(trimmed domain) <= 64; otherwise
\* hostname stays unset and the domain name stays as it was.  A name of 64
\* characters never becomes the hostname.
C7_HostnameLimit ==
    C7_Case =>
        /\ IF Len(r.name) + 1 + Len(Trimmed) <= 64
           THEN /\ container.Config.Hostname = r.name
                /\ container.Config.Domainname = Trimmed
           ELSE /\ container.Config.Hostname = <<>>
                /\ container.Config.Domainname = before.Config.Domainname
        /\ Len(r.name) >= 64 => container.Config.Hostname = <<>>

C7_Witness ==
    /\ C7_Case
    /\ Len(r.name) + 1 + Len(Trimmed) = 64
    /\ Domain = DefaultLocalDomain
    /\ container.Config.Hostname = r.name
    /\ container.Config.Domainname = Trimmed

\* C8: with withoutDNS set, or with the name service not running and
\* withDNS unset, setWeaveDNS returns no error and leaves the whole spec as
\* it was; with withoutDNS set the name service is not inspected.
C8_InactiveDNSFrame ==
    (applied = 1 /\ (proxy.WithoutDNS \/ (~Running /\ ~proxy.WithDNS))) =>
        /\ container = before
        /\ err = NoError
        /\ proxy.WithoutDNS =>
               Range(calls) \cap {"InspectContainer", "http.Get"} = {}

C8_Witness ==
    /\ applied = 1
    /\ ~proxy.WithoutDNS
    /\ ~proxy.WithDNS
    /\ world.weavedns.outcome = "StatusNotOK"
    /\ before.Config.Hostname = <<>>
    /\ before.HostConfig.DNSSearch = <<>>
    /\ r.name = <<"a">>
    /\ "http.Get" \in Range(calls)

\* this call assigned the hostname
JustAssigned ==
    before.Config.Hostname = <<>> /\ container.Config.Hostname # <<>>

\* C9 as stated: with DNS active the bridge address is appended to dns, a
\* non-empty dnsSearch is kept, an empty one becomes [domain] when the
\* hostname is unset after the hostname step and ["."] otherwise, and
\* ["."] is chosen only when this call has just assigned the hostname.
C9_AsStated ==
    (applied = 1 /\ DNSActive) =>
        /\ container.HostConfig.DNS =
               Append(before.HostConfig.DNS, proxy.dockerBridgeIP)
        /\ before.HostConfig.DNSSearch # <<>> =>
               container.HostConfig.DNSSearch = before.HostConfig.DNSSearch
        /\ before.HostConfig.DNSSearch = <<>> =>
               IF container.Config.Hostname = <<>>
               THEN container.HostConfig.DNSSearch = <<Domain>>
               ELSE /\ container.HostConfig.DNSSearch = <<<<".">>>>
                    /\ JustAssigned

\* C9 amended: as above, but ["."] is chosen whenever the hostname is set
\* after the hostname step, be it assigned by this call or given in the
\* spec.
C9_DNSSettings ==
    (applied = 1 /\ DNSActive) =>
        /\ container.HostConfig.DNS =
               Append(before.HostConfig.DNS, proxy.dockerBridgeIP)
        /\ before.HostConfig.DNSSearch # <<>> =>
               container.HostConfig.DNSSearch = before.HostConfig.DNSSearch
        /\ before.HostConfig.DNSSearch = <<>> =>
               container.HostConfig.DNSSearch =
                   IF container.Config.Hostname = <<>>
                   THEN <<Domain>> ELSE <<<<".">>>>
        /\ (before.HostConfig.DNSSearch = <<>>
            /\ before.Config.Hostname # <<>>) =>
               /\ container.Config.Hostname = before.Config.Hostname
               /\ container.HostConfig.DNSSearch = <<<<".">>>>

C9_Witness ==
    /\ applied = 1
    /\ DNSActive
    /\ before.Config.Hostname = <<"h">>
    /\ before.HostConfig.DNSSearch = <<>>
    /\ before.HostConfig.DNS = <<"8.8.8.8">>
    /\ container.HostConfig.DNS = <<"8.8.8.8", "172.17.42.1">>
    /\ container.HostConfig.DNSSearch = <<<<".">>>>

----------------------------------------------------------------------------
(* C1, C10: InterceptRequest *)

Stages == {"addWeaveWaitVolume", "setWeaveWaitEntrypoint", "setWeaveDNS"}
Inspections == {"InspectImage", "InspectContainer", "http.Get"}
Resolved == "weaveCIDRsFromConfig" \in Range(calls)

\* C1: once the resolver has returned an error the spec stays as decoded
\* (nothing allocated), no stage runs, nothing is inspected and the request
\* returns without error, its new body decoding to the decoded input; a
\* stage runs only after the resolver succeeded, and after a success, also
\* one with no addresses, the volume and entrypoint stages run, and the DNS
\* stage unless the entrypoint stage failed.
C1_ResolverErrorFrame ==
    /\ (Resolved /\ world.resolved.err # NoError) =>
           /\ container = given
           /\ Range(calls) \cap (Stages \cup Inspections) = {}
           /\ err = NoError
           /\ pc = "return" =>
                  /\ r.Body.origin = "interceptor"
                  /\ Unmarshal(r.Body.bytes).container = given
    /\ Range(calls) \cap Stages # {} => world.resolved.err = NoError
    /\ (Resolved /\ world.resolved.err = NoError /\ pc = "return") =>
           /\ {"addWeaveWaitVolume", "setWeaveWaitEntrypoint"} \subseteq Range(calls)
           /\ err = NoError => "setWeaveDNS" \in Range(calls)

C1_Witness ==
    /\ pc = "return"
    /\ Resolved
    /\ world.resolved.err # NoError
    /\ given.Config.present
    /\ given.Config.Entrypoint.isNil
    /\ ~given.HostConfig.present
    /\ ~proxy.WithoutDNS
    /\ r.name # <<>>

\* C10: an error is returned at once: the DNS stage has not run and does
\* not run, the spec is not encoded, body and content length stay the
\* client's.  A failed decoding is returned; the entrypoint stage returns
\* ErrNoSuchImage with config.image when the engine knows no such image,
\* the engine's other error as it is, or ErrNoCommandSpecified.  The new
\* body is installed only on success, with its length as content length,
\* and no external call is made twice.
C10_ErrorsAbort ==
    /\ err # NoError =>
           /\ pc = "return"
           /\ Range(calls) \cap {"setWeaveDNS", "Marshal"} = {}
           /\ r.Body.origin = "client"
           /\ r.ContentLength = Len(r.Body.bytes)
    /\ (pc = "return" /\ r.Body.bytes = Malformed) =>
           err \in {world.readErr, Unmarshal(Malformed).err} \ {NoError}
    /\ (pc = "return" /\ "setWeaveWaitEntrypoint" \in Range(calls)) =>
           IF "InspectImage" \in Range(calls) /\ world.image.err # NoError
           THEN err = IF world.image.err = DockerErrNoSuchImage
                      THEN ErrNoSuchImage(given.Config.Image)
                      ELSE world.image.err
           ELSE err \in {NoError, ErrNoCommandSpecified}
    /\ r.Body.origin = "interceptor" =>
           /\ err = NoError
           /\ pc = "return"
           /\ r.Body.bytes = Marshal(container)
           /\ r.ContentLength = Len(r.Body.bytes)
    /\ (pc = "return" /\ err = NoError) => r.Body.origin = "interceptor"
    /\ \A op \in Inspections \cup {"ReadAll", "weaveCIDRsFromConfig", "Marshal"} :
           Count(calls, op) <= 1

C10_Witness ==
    /\ pc = "return"
    /\ err = ErrNoSuchImage("busybox")
    /\ Range(calls) \cap {"setWeaveDNS", "Marshal"} = {}
    /\ ~proxy.WithoutDNS
    /\ r.Body.origin = "client"

====
